---- MODULE Spec2Model ----
(***************************************************************************)
(* guacapy: a client of the Guacamole REST API.  The model covers the      *)
(* session (Guacamole), the authenticated request dispatchers              *)
(* (utilities.requester and Guacamole.__auth_request), the resource        *)
(* managers, payload validation and the tree search helpers.  The remote   *)
(* server is the environment: its responses are chosen nondeterministically*)
(***************************************************************************)
EXTENDS Integers, Sequences, FiniteSets, TLC

VARIABLES
    session,    \* the Guacamole client object, or NoSession before construction
    nextTok,    \* server side: index of the next authToken the server issues
    revoked,    \* history: the tokens revoked by logout
    last,       \* the last operation: its requests, dispatcher calls and outcome
    payload,    \* the payload dictionary the caller is building
    edits,      \* number of edits the caller applied to the payload
    tree,       \* server side: the connection tree under ROOT
    found,      \* the last name search and what each search function returned
    clock,      \* the system clock: time.time(), in whole seconds
    mapping,    \* a query-parameter dict a caller of requester holds
    threads,    \* per thread: where its manager operation stands inside requester
    wire        \* per connection: the request in flight and the server's answer

\* the state of the callers that use requester directly or from several threads
callers == <<mapping, threads, wire>>

vars == <<session, nextTok, revoked, last, payload, edits, tree, found, clock,
          mapping, threads, wire>>

(***************************************************************************)
(* Bounds                                                                  *)
(***************************************************************************)
MaxLogins == 1
MaxEdits == 1
MaxNodes == 4
MaxTicks == 4
TickSeconds == 15

(***************************************************************************)
(* Python values                                                           *)
(***************************************************************************)
None == "<None>"

Truthy(v) == v # None /\ v # ""

\* the authToken strings issued by the server
Token(n) == "T" \o ToString(n)

Datasources == {"mysql", "postgresql"}

\* status codes the server answers with
Statuses == {200, 204, 304, 400, 401, 404, 500, 502}

\* bodies: a JSON document, text that is not JSON
Bodies == {"json", "text"}

\* a response of the server, or a transport failure (no response at all);
\* the body of a failure response is never decoded, and a 204 has no body
Responses ==
    [transport : {"ok"}, status : Statuses \ {204}, body : {"json"}]
        \cup [transport : {"ok"}, status : {s \in Statuses : s < 400}, body : {"text"}]
        \cup {[transport |-> "error", status |-> 200, body |-> "text"]}

\* requests.Response.ok: status_code below 400
ResponseOk(resp) == resp.status < 400

(***************************************************************************)
(* Outcomes of a call                                                      *)
(***************************************************************************)
Return(v) == [kind |-> "return", exc |-> None, status |-> 0, val |-> v]
Raise(e, s) == [kind |-> "raise", exc |-> e, status |-> s, val |-> None]

\* No Guacamole object: construction has not succeeded yet.  base_url is the
\* attribute the managers read; client.py names it REST_API.
NoSession ==
    [exists |-> FALSE, base_url |-> <<>>, token |-> None,
     primary_datasource |-> None, datasources |-> {}, verify |-> TRUE,
     cookies |-> None]

NoBody == [present |-> FALSE, doc |-> <<>>]
Body(p) == [present |-> TRUE, doc |-> p]

(***************************************************************************)
(* Query parameters: a dict (requester) or a list of pairs                 *)
(* (__auth_request), both kept as a sequence of <<key, value>> pairs.      *)
(* The empty sequence stands for None and for an empty mapping alike: the  *)
(* code treats both the same way (params or {}, if url_params).            *)
(***************************************************************************)
HasKey(params, k) == \E i \in 1..Len(params) : params[i][1] = k

\* params[k] = v on a dict: replace in place, or insert at the end
SetParam(params, k, v) ==
    IF HasKey(params, k)
    THEN [i \in 1..Len(params) |->
              IF params[i][1] = k THEN <<k, v>> ELSE params[i]]
    ELSE Append(params, <<k, v>>)

\* what requests puts on the wire: parameters whose value is None are dropped
Query(req) == SelectSeq(req.params, LAMBDA kv : kv[2] # None)

Request(method, url, params, body, verify, cookies) ==
    [method |-> method, url |-> url, params |-> params, json |-> body,
     verify |-> verify, cookies |-> cookies]

(***************************************************************************)
(* utilities.requester.  No caller in the repository passes verify,        *)
(* allow_redirects or cookies, so they take the client's values.  resp is  *)
(* the server's answer.  The result holds the requests issued, the         *)
(* outcome, the client object and the caller's params mapping afterwards,  *)
(* and a log entry of the call: what was asked, answered and returned.     *)
(***************************************************************************)
StaleToken(token, guac_client) ==
    IF Truthy(token) THEN token ELSE Token(nextTok - 1)

\* token = token or guac_client.token
RequestToken(token, guac_client) ==
    IF Truthy(token) THEN token ELSE guac_client.token

TokenOnlyWithParams(params, token, guac_client) ==
    IF params = <<>> THEN <<>>
    ELSE SetParam(params, "token", RequestToken(token, guac_client))

\* params = params or {}; params["token"] = token
RequestParams(params, token, guac_client) ==
    SetParam(IF params = <<>> THEN <<>> ELSE params,
             "token", RequestToken(token, guac_client))

RaisesOnlyClientErrors(resp) == resp.status >= 400 /\ resp.status < 500

\* response.raise_for_status()
RaisesForStatus(resp) == resp.status >= 400 /\ resp.status < 600

ReturnsRawOnDecodeError(resp, json_response) ==
    IF json_response /\ resp.body = "json" THEN Return("json") ELSE Return("response")

\* the body decoded whatever json_response says
DecodesAlways(resp, json_response) ==
    IF resp.body = "json" THEN Return("json") ELSE Raise("JSONDecodeError", 0)

\* if json_response: try: return response.json() except JSONDecodeError: raise
\* return response
Decoded(resp, json_response) ==
    IF json_response
    THEN IF resp.body = "json" THEN Return("json") ELSE Raise("JSONDecodeError", 0)
    ELSE Return("response")

RequesterOutcome(resp, json_response) ==
    IF resp.transport = "error" THEN Raise("ConnectionError", 0)
    ELSE IF RaisesForStatus(resp) THEN Raise("HTTPError", resp.status)
    ELSE Decoded(resp, json_response)

LogEntry(dispatcher, json_response, resp, out) ==
    [dispatcher |-> dispatcher, json_response |-> json_response, resp |-> resp,
     out |-> out]

RequesterRetries(guac_client, url, method, params, body, token, json_response, resp) ==
    LET p1 == RequestParams(params, token, guac_client)
        req == Request(method, url, p1, body, guac_client.verify, guac_client.cookies)
        out == RequesterOutcome(resp, json_response)
    IN [reqs |-> IF resp.transport = "ok" /\ resp.status >= 500
                 THEN <<req, req>> ELSE <<req>>,
        out |-> out,
        client |-> guac_client,
        params |-> IF params = <<>> THEN params ELSE p1,
        log |-> <<LogEntry("requester", json_response, resp, out)>>]

RequesterDropsToken(guac_client, url, method, params, body, token, json_response, resp) ==
    LET p1 == RequestParams(params, token, guac_client)
        req == Request(method, url, p1, body, guac_client.verify, guac_client.cookies)
        out == RequesterOutcome(resp, json_response)
    IN [reqs |-> <<req>>,
        out |-> out,
        client |-> IF resp.transport = "ok" /\ resp.status = 401
                   THEN [guac_client EXCEPT !.token = None] ELSE guac_client,
        params |-> IF params = <<>> THEN params ELSE p1,
        log |-> <<LogEntry("requester", json_response, resp, out)>>]

Requester(guac_client, url, method, params, body, token, json_response, resp) ==
    LET p1 == RequestParams(params, token, guac_client)
        req == Request(method, url, p1, body, guac_client.verify, guac_client.cookies)
        out == RequesterOutcome(resp, json_response)
    IN [reqs |-> <<req>>,
        out |-> out,
        client |-> guac_client,
        \* a non-empty mapping passed by the caller is updated in place
        params |-> IF params = <<>> THEN params ELSE p1,
        log |-> <<LogEntry("requester", json_response, resp, out)>>]

(***************************************************************************)
(* Guacamole.__auth_request (client.py)                                    *)
(***************************************************************************)
AuthRequest(self, method, url, body, url_params, json_response, resp) ==
    LET p0 == <<<<"token", self.token>>>>
        \* if url_params: params += url_params
        p1 == IF url_params # <<>> THEN p0 \o url_params ELSE p0
        req == Request(method, url, p1, body, self.verify, None)
        out == IF resp.transport = "error" THEN Raise("ConnectionError", 0)
               ELSE IF RaisesForStatus(resp) THEN Raise("HTTPError", resp.status)
               ELSE IF json_response
                    THEN IF resp.body = "json" THEN Return("json")
                         \* except JSONDecodeError: return r
                         ELSE Return("response")
               ELSE Return("response")
    IN [reqs |-> <<req>>,
        out |-> out,
        client |-> self,
        params |-> url_params,
        log |-> <<LogEntry("__auth_request", json_response, resp, out)>>]

(***************************************************************************)
(* Payload dictionaries: functions from keys to values; a value is a       *)
(* string, None or a nested dictionary                                     *)
(***************************************************************************)
Str(x) == [t |-> "str", s |-> x, d |-> <<>>]
NoneVal == [t |-> "None", s |-> "", d |-> <<>>]
Dict(f) == [t |-> "dict", s |-> "", d |-> f]
EmptyDict == <<>>

StrDict(keys) == [k \in keys |-> Str("")]

DelKey(p, k) == [x \in DOMAIN p \ {k} |-> p[x]]
SetKey(p, k, v) == [x \in DOMAIN p \cup {k} |-> IF x = k THEN v ELSE p[x]]

\* payload.get(key) is None
GetIsNone(p, k) == k \notin DOMAIN p \/ p[k].t = "None"

ORG_TEMPLATE ==
    "name" :> Str("") @@ "parentIdentifier" :> Str("ROOT")
    @@ "type" :> Str("ORGANIZATIONAL")
    @@ "attributes" :> Dict(StrDict({"max-connections", "max-connections-per-user"}))

GROUP_TEMPLATE ==
    "identifier" :> Str("") @@ "attributes" :> Dict(StrDict({"disabled"}))

PROFILE_TEMPLATE ==
    "name" :> Str("") @@ "primaryConnectionIdentifier" :> Str("")
    @@ "parameters" :> Dict(StrDict({"read-only"}))
    @@ "attributes" :> Dict(EmptyDict)

RDP_TEMPLATE ==
    "name" :> Str("") @@ "parentIdentifier" :> Str("ROOT")
    @@ "protocol" :> Str("rdp")
    @@ "attributes" :> Dict(StrDict({"max-connections", "max-connections-per-user",
            "weight", "failover-only", "guacd-port", "guacd-encryption",
            "guacd-hostname"}))
    @@ "parameters" :> Dict("port" :> Str("3389") @@ "security" :> Str("rdp")
            @@ StrDict({"hostname", "username", "password", "disable-audio",
                "server-layout", "domain", "enable-font-smoothing", "ignore-cert",
                "console", "width", "height", "dpi", "color-depth",
                "console-audio", "enable-printing", "enable-drive",
                "create-drive-path", "enable-wallpaper", "enable-theming",
                "enable-full-window-drag", "enable-desktop-composition",
                "enable-menu-animations", "preconnection-id", "enable-sftp",
                "sftp-port"}))

SSH_TEMPLATE ==
    "name" :> Str("") @@ "parentIdentifier" :> Str("ROOT")
    @@ "protocol" :> Str("ssh")
    @@ "attributes" :> Dict(StrDict({"max-connections", "max-connections-per-user"}))
    @@ "parameters" :> Dict("port" :> Str("22")
            @@ StrDict({"hostname", "username", "password"}))

VNC_TEMPLATE ==
    "name" :> Str("") @@ "parentIdentifier" :> Str("ROOT")
    @@ "protocol" :> Str("vnc")
    @@ "attributes" :> Dict(StrDict({"max-connections", "max-connections-per-user",
            "weight", "failover-only", "guacd-port", "guacd-encryption",
            "guacd-hostname"}))
    @@ "parameters" :> Dict("port" :> Str("5900")
            @@ StrDict({"hostname", "password", "read-only", "swap-red-blue",
                "cursor", "color-depth", "clipboard-encoding", "dest-port",
                "create-recording-path", "enable-sftp", "sftp-port",
                "sftp-server-alive-interval", "enable-audio"}))

(***************************************************************************)
(* utilities.validate_payload: TRUE when it raises ValueError              *)
(***************************************************************************)
RECURSIVE ValidateRaises(_, _, _)
\* nested dictionaries validated as strictly as the top level
ValidateStrictNested(p, template, allow_partial) ==
    \E key \in DOMAIN template :
        \/ key \notin DOMAIN p /\ ~allow_partial
        \/ IF template[key].t = "dict" /\ key \in DOMAIN p /\ p[key].t = "dict"
           THEN ValidateRaises(p[key].d, template[key].d, allow_partial)
           ELSE template[key].t # "None" /\ GetIsNone(p, key) /\ ~allow_partial

ValidateSkipsMissing(p, template, allow_partial) ==
    \E key \in DOMAIN template :
        /\ key \in DOMAIN p
        /\ template[key].t # "dict"
        /\ p[key].t = "None"
        /\ ~allow_partial

ValidateRaises(p, template, allow_partial) ==
    \E key \in DOMAIN template :
        \/ key \notin DOMAIN p /\ ~allow_partial
        \/ IF template[key].t = "dict" /\ key \in DOMAIN p /\ p[key].t = "dict"
           THEN ValidateRaises(p[key].d, template[key].d, TRUE)
           ELSE template[key].t # "None" /\ GetIsNone(p, key) /\ ~allow_partial

(***************************************************************************)
(* Resource managers.  Each operation yields the dispatcher calls made,    *)
(* the requests issued, the outcome and the client object afterwards.      *)
(***************************************************************************)
Called(r) == [reqs |-> r.reqs, log |-> r.log, out |-> r.out, client |-> r.client]
NotCalled(client, out) == [reqs |-> <<>>, log |-> <<>>, out |-> out, client |-> client]

\* a handler that swallows every client error instead of the one it names
CatchClientErrors(c, status) ==
    IF c.out.kind = "raise" /\ c.out.exc = "HTTPError" /\ c.out.status \in 400..499
    THEN [c EXCEPT !.out = Return(None)]
    ELSE c

\* except requests.HTTPError as e: if e.response.status_code == status: return None
CatchStatus(c, status) ==
    IF c.out.kind = "raise" /\ c.out.exc = "HTTPError" /\ c.out.status = status
    THEN [c EXCEPT !.out = Return(None)]
    ELSE c

\* a manager that ignores the datasource it was given
ManagerUrlIgnoresDatasource(client, datasource, resource) ==
    client.base_url \o <<"session", "data", client.primary_datasource, resource>>

\* self.datasource = datasource or client.primary_datasource; self.url = ...
ManagerUrl(client, datasource, resource) ==
    client.base_url \o
        <<"session", "data",
          IF Truthy(datasource) THEN datasource ELSE client.primary_datasource,
          resource>>

ValidatingManagers == {"connectionGroups", "userGroups", "sharingProfiles", "connections"}
CrudManagers == ValidatingManagers \cup {"users"}
Managers == CrudManagers \cup {"activeConnections"}

Manager_list(client, datasource, resource, resp) ==
    Called(Requester(client, ManagerUrl(client, datasource, resource),
                     "GET", <<>>, NoBody, None, TRUE, resp))

\* every manager's details turning a 404 into None
DetailsAbsentOn404(client, datasource, resource, identifier, resp) ==
    CatchStatus(
        Called(Requester(client, ManagerUrl(client, datasource, resource) \o <<identifier>>,
                         "GET", <<>>, NoBody, None, TRUE, resp)),
        404)

Manager_details(client, datasource, resource, identifier, resp) ==
    Called(Requester(client, ManagerUrl(client, datasource, resource) \o <<identifier>>,
                     "GET", <<>>, NoBody, None, TRUE, resp))

ActiveConnectionManager_details(client, datasource, identifier, resp) ==
    CatchStatus(Manager_details(client, datasource, "activeConnections", identifier, resp), 404)

Manager_delete(client, datasource, resource, identifier, resp) ==
    Called(Requester(client, ManagerUrl(client, datasource, resource) \o <<identifier>>,
                     "DELETE", <<>>, NoBody, None, FALSE, resp))

ActiveConnectionManager_kill(client, datasource, identifier, resp) ==
    CatchStatus(Manager_delete(client, datasource, "activeConnections", identifier, resp), 404)

\* a delete that swallows every server error instead of 500 alone
UserGroupDeleteSwallows5xx(client, datasource, identifier, resp) ==
    LET c == Manager_delete(client, datasource, "userGroups", identifier, resp)
    IN  IF c.out.kind = "raise" /\ c.out.exc = "HTTPError" /\ c.out.status >= 500
        THEN [c EXCEPT !.out = Return(None)]
        ELSE c

UserGroupManager_delete(client, datasource, identifier, resp) ==
    CatchStatus(Manager_delete(client, datasource, "userGroups", identifier, resp), 500)

Manager_post(client, datasource, resource, p, resp) ==
    Called(Requester(client, ManagerUrl(client, datasource, resource),
                     "POST", <<>>, Body(p), None, TRUE, resp))

Manager_put(client, datasource, resource, identifier, p, resp) ==
    Called(Requester(client, ManagerUrl(client, datasource, resource) \o <<identifier>>,
                     "PUT", <<>>, Body(p), None, FALSE, resp))

UserManager_create(client, datasource, p, resp) ==
    Manager_post(client, datasource, "users", p, resp)

UserManager_update(client, datasource, username, p, resp) ==
    Manager_put(client, datasource, "users", username, p, resp)

\* the template a manager validates against
TemplateOf(resource) ==
    CASE resource = "connectionGroups" -> ORG_TEMPLATE
      [] resource = "userGroups" -> GROUP_TEMPLATE
      [] resource = "sharingProfiles" -> PROFILE_TEMPLATE

\* ConnectionManager: protocol = payload.get("protocol"); any value other than
\* "rdp", "ssh", "vnc" raises ValueError("Unsupported protocol")
UnsupportedProtocol(p) ==
    \/ "protocol" \notin DOMAIN p
    \/ p["protocol"] \notin {Str("rdp"), Str("ssh"), Str("vnc")}

ConnectionTemplate(p) ==
    IF p["protocol"] = Str("rdp") THEN RDP_TEMPLATE
    ELSE IF p["protocol"] = Str("ssh") THEN SSH_TEMPLATE
    ELSE VNC_TEMPLATE

\* validate_payload(payload, self.X_TEMPLATE) as the managers call it
PayloadRejected(resource, p) ==
    IF resource = "connections"
    THEN UnsupportedProtocol(p) \/ ValidateRaises(p, ConnectionTemplate(p), FALSE)
    ELSE ValidateRaises(p, TemplateOf(resource), FALSE)

Manager_create(client, datasource, resource, p, resp) ==
    IF PayloadRejected(resource, p)
    THEN NotCalled(client, Raise("ValueError", 0))
    ELSE CatchStatus(Manager_post(client, datasource, resource, p, resp), 400)

Manager_update(client, datasource, resource, identifier, p, resp) ==
    IF PayloadRejected(resource, p)
    THEN NotCalled(client, Raise("ValueError", 0))
    ELSE Manager_put(client, datasource, resource, identifier, p, resp)

(***************************************************************************)
(* One-time passwords: get_hotp_token and get_totp_token, in utilities.py  *)
(* and in client.py.  Strings are sequences of characters, byte strings    *)
(* sequences of numbers 0..255.                                            *)
(***************************************************************************)
\* int(time.time()) // 30
Period == 30
\* str(value).rjust(6, "0")
Digits == 6
\* % 1000000
Modulus == 1000000

B32Alphabet == 
    <<"A", "B", "C", "D", "E", "F", "G", "H", "I", "J", "K", "L", "M", "N", "O", "P",
     "Q", "R", "S", "T", "U", "V", "W", "X", "Y", "Z", "2", "3", "4", "5", "6", "7">>
LowerCase == 
    <<"a", "b", "c", "d", "e", "f", "g", "h", "i", "j", "k", "l", "m", "n", "o", "p",
     "q", "r", "s", "t", "u", "v", "w", "x", "y", "z">>
DigitChars == <<"0", "1", "2", "3", "4", "5", "6", "7", "8", "9">>

InSeq(seq, c) == \E i \in 1..Len(seq) : seq[i] = c
IndexOf(seq, c) == CHOOSE i \in 1..Len(seq) : seq[i] = c

\* bytes.upper() on one character
Upper(c) == IF InSeq(LowerCase, c) THEN B32Alphabet[IndexOf(LowerCase, c)] ELSE c

\* s.rstrip(b"=")
RECURSIVE RStrip(_)
RStrip(s) ==
    IF s # <<>> /\ s[Len(s)] = "=" THEN RStrip(SubSeq(s, 1, Len(s) - 1)) ELSE s

\* the characters base64.b32decode looks up: case folded, padding stripped
B32Body(s, casefold) ==
    RStrip(IF casefold THEN [i \in 1..Len(s) |-> Upper(s[i])] ELSE s)

\* the binascii.Error base64.b32decode(s, casefold) raises, or None
B32Error(s, casefold) ==
    LET body == B32Body(s, casefold)
    IN IF Len(s) % 8 # 0 THEN "Incorrect padding"
       ELSE IF \E i \in 1..Len(body) : ~InSeq(B32Alphabet, body[i])
            THEN "Non-base32 digit found"
       ELSE IF (Len(s) - Len(body)) \notin {0, 1, 3, 4, 6} THEN "Incorrect padding"
       ELSE None

Bits5(v) == [i \in 1..5 |-> (v \div 2^(5 - i)) % 2]

RECURSIVE BitsOf(_)
BitsOf(body) ==
    IF body = <<>> THEN <<>>
    ELSE Bits5(IndexOf(B32Alphabet, Head(body)) - 1) \o BitsOf(Tail(body))

ByteAt(bits, k) ==
    LET b(j) == bits[8 * (k - 1) + j]
    IN 128 * b(1) + 64 * b(2) + 32 * b(3) + 16 * b(4)
        + 8 * b(5) + 4 * b(6) + 2 * b(7) + b(8)

\* base64.b32decode(s, casefold) when it raises nothing: five bits a character,
\* the whole bytes of the bit string
B32Decode(s, casefold) ==
    LET body == B32Body(s, casefold)
        bits == BitsOf(body)
    IN [k \in 1..((5 * Len(body)) \div 8) |-> ByteAt(bits, k)]

\* struct.pack(">Q", n) for 0 <= n < 2^31
Pack(n) == [i \in 1..8 |-> IF i <= 4 THEN 0 ELSE (n \div 256^(8 - i)) % 256]

\* hmac.new(key, msg, hashlib.sha1).digest(): the HMAC-SHA1 digests of the
\* keys and counters the model uses
Digests ==
    <<<<28, 68, 174, 51, 26>>, Pack(0)>> :> 
            <<113, 9, 50, 22, 64, 110, 107, 182, 21, 13, 147, 85, 63, 18, 93, 182, 44, 28, 12, 121>>
    @@ <<<<28, 68, 174, 51, 26>>, Pack(1)>> :> 
            <<204, 35, 20, 229, 228, 236, 106, 79, 220, 80, 209, 61, 186, 234, 125, 223, 99, 73, 11, 90>>
    @@ <<<<28, 68, 174, 51, 26>>, Pack(2)>> :> 
            <<34, 13, 160, 111, 178, 248, 132, 158, 95, 17, 3, 62, 63, 229, 17, 33, 43, 173, 228, 128>>
    @@ <<<<28, 68, 174, 51, 26>>, Pack(3)>> :> 
            <<30, 181, 130, 169, 140, 17, 159, 49, 10, 98, 74, 99, 48, 166, 211, 139, 189, 6, 163, 159>>
    @@ <<<<28, 68, 174, 51, 26>>, Pack(4)>> :> 
            <<52, 213, 106, 179, 133, 94, 0, 72, 109, 94, 250, 255, 190, 189, 86, 111, 222, 50, 102, 73>>
    @@ <<<<28, 68, 174>>, Pack(0)>> :> 
            <<77, 189, 107, 221, 126, 174, 208, 193, 183, 52, 209, 77, 74, 38, 72, 17, 60, 177, 75, 144>>
    @@ <<<<28, 68, 174>>, Pack(1)>> :> 
            <<82, 147, 57, 186, 235, 235, 216, 245, 224, 185, 101, 142, 95, 175, 167, 227, 80, 4, 64, 127>>
    @@ <<<<28, 68, 174>>, Pack(2)>> :> 
            <<50, 161, 239, 104, 184, 174, 132, 184, 74, 23, 72, 155, 192, 116, 225, 78, 160, 20, 79, 115>>
    @@ <<<<28, 68, 174>>, Pack(3)>> :> 
            <<61, 239, 199, 144, 190, 48, 169, 205, 215, 68, 46, 25, 21, 229, 241, 105, 178, 125, 238, 0>>
    @@ <<<<28, 68, 174>>, Pack(4)>> :> 
            <<35, 99, 243, 219, 211, 89, 88, 3, 73, 32, 144, 208, 1, 220, 53, 214, 78, 17, 113, 253>>

HmacSha1(key, msg) == Digests[<<key, msg>>]

\* the offset taken from the high four bits of the last byte
OffsetHighBits(h) == h[20] \div 16

\* o = h[19] & 15
Offset(h) == h[20] % 16

\* (struct.unpack(">I", h[o:o+4])[0] & 0x7FFFFFFF) % 1000000
Truncate(h) ==
    LET o == Offset(h)
    IN ((h[o + 1] % 128) * 16777216 + h[o + 2] * 65536 + h[o + 3] * 256 + h[o + 4])
            % Modulus

\* Python values of the token functions: an int, or a str
IntVal(n) == [t |-> "int", n |-> n, s |-> <<>>]
StrVal(s) == [t |-> "str", n |-> 0, s |-> s]

\* the result shifts with the clock
HotpAddsClock(secret, intervals_no) ==
    IF B32Error(secret, TRUE) # None THEN Raise("binascii.Error", 0)
    ELSE Return(IntVal((Truncate(HmacSha1(B32Decode(secret, TRUE), Pack(intervals_no)))
                            + clock) % Modulus))

\* utilities.get_hotp_token
get_hotp_token(secret, intervals_no) ==
    IF B32Error(secret, TRUE) # None THEN Raise("binascii.Error", 0)
    ELSE Return(IntVal(Truncate(HmacSha1(B32Decode(secret, TRUE), Pack(intervals_no)))))

\* client.get_hotp_token
client_get_hotp_token(secret, intervals_no) ==
    IF B32Error(secret, TRUE) # None THEN Raise("binascii.Error", 0)
    ELSE Return(IntVal(Truncate(HmacSha1(B32Decode(secret, TRUE), Pack(intervals_no)))))

\* str(n) for n >= 0
RECURSIVE Decimal(_)
Decimal(n) ==
    IF n < 10 THEN <<DigitChars[n + 1]>>
    ELSE Decimal(n \div 10) \o <<DigitChars[(n % 10) + 1]>>

\* s.rjust(width, fill)
RJust(s, width, fill) ==
    IF Len(s) >= width THEN s ELSE [i \in 1..(width - Len(s)) |-> fill] \o s

\* a window of 20 seconds instead of 30
TotpShortWindow(secret, now) ==
    LET value == get_hotp_token(secret, now \div 20)
    IN IF value.kind = "raise" THEN value
       ELSE Return(StrVal(RJust(Decimal(value.val.n), Digits, "0")))

\* utilities.get_totp_token, called when time.time() is now
get_totp_token(secret, now) ==
    LET value == get_hotp_token(secret, now \div Period)
    IN IF value.kind = "raise" THEN value
       ELSE Return(StrVal(RJust(Decimal(value.val.n), Digits, "0")))

\* a secret that does not decode is cut to its first five characters
TotpTruncatesSecret(secret, now) ==
    IF B32Error(secret, TRUE) # None
    THEN client_get_hotp_token(SubSeq(secret, 1, 5) \o <<"=", "=", "=">>, now \div Period)
    ELSE client_get_hotp_token(secret, now \div Period)

\* client.get_totp_token, called when time.time() is now
client_get_totp_token(secret, now) ==
    client_get_hotp_token(secret, now \div Period)

\* what requests writes into a form body for a value: str(value)
FormEncode(v) == IF v.t = "int" THEN Decimal(v.n) ELSE v.s

\* the secret argument of Guacamole: None, or a string
NoSecret == [given |-> FALSE, chars |-> <<>>]
Secret(chars) == [given |-> TRUE, chars |-> chars]

(***************************************************************************)
(* Guacamole (client.py): construction, and the methods that go through    *)
(* __auth_request                                                          *)
(***************************************************************************)
Hostname == "guac.example.com"

\* self.REST_API = "{}://{}{}/api".format(method, hostname, url_path)
RestApi(method) == <<method, Hostname, "/", "api">>

LoginKeys == {"authToken", "dataSource", "availableDataSources"}

\* the JSON documents the server may answer a login with
LoginDocs(tok) ==
    [keys : {LoginKeys} \cup {LoginKeys \ {k} : k \in LoginKeys},
     authToken : {tok}, dataSource : Datasources,
     availableDataSources : SUBSET Datasources \ {{}}]

\* Guacamole.__authenticate: POST {REST_API}/tokens, sent without the dispatcher
AuthenticateRequest(method, verify) ==
    [method |-> "POST", url |-> RestApi(method) \o <<"tokens">>,
     params |-> <<>>, json |-> NoBody, verify |-> verify, cookies |-> None]

\* the exception __init__ ends with, or None when construction succeeds
ConstructionError(default_datasource, resp, doc) ==
    IF resp.transport = "error" THEN "ConnectionError"
    ELSE IF RaisesForStatus(resp) THEN "HTTPError"
    ELSE IF resp.body # "json" THEN "JSONDecodeError"
    ELSE IF ~(LoginKeys \subseteq doc.keys) THEN "AssertionError"
    ELSE IF Truthy(default_datasource)
            /\ default_datasource \notin doc.availableDataSources
         THEN "AssertionError"
    ELSE None

\* the login response's dataSource kept whatever the caller asked for
ConstructedIgnoresDefault(method, default_datasource, verify, doc) ==
    [exists |-> TRUE,
     base_url |-> RestApi(method),
     token |-> doc.authToken,
     primary_datasource |-> doc.dataSource,
     datasources |-> doc.availableDataSources,
     verify |-> verify,
     cookies |-> None]

Constructed(method, default_datasource, verify, doc) ==
    [exists |-> TRUE,
     base_url |-> RestApi(method),
     token |-> doc.authToken,
     primary_datasource |->
         IF Truthy(default_datasource) THEN default_datasource ELSE doc.dataSource,
     datasources |-> doc.availableDataSources,
     verify |-> verify,
     cookies |-> None]

Op(name, mgr, c) ==
    [op |-> name, mgr |-> mgr, reqs |-> c.reqs, log |-> c.log, out |-> c.out]

IssuesToken(resp, doc) ==
    resp.transport = "ok" /\ ~RaisesForStatus(resp) /\ resp.body = "json"
        /\ "authToken" \in doc.keys

Username == "admin"
Password == "pw"

\* __authenticate: parameters = {"username": ..., "password": ...} and, when
\* self.secret is not None, parameters["guac-totp"] = get_totp_token(self.secret)
AuthenticateData(secret, now) ==
    <<<<"username", Username>>, <<"password", Password>>>>
        \o IF secret.given
           THEN <<<<"guac-totp",
                    FormEncode(client_get_totp_token(secret.chars, now).val)>>>>
           ELSE <<>>

\* requests.post(url=self.REST_API + "/tokens", data=parameters, ...)
AuthenticatePost(method, verify, secret, now) ==
    [data |-> AuthenticateData(secret, now)] @@ AuthenticateRequest(method, verify)

\* Guacamole(hostname, username, password, secret=..., method=...,
\* default_datasource=..., verify=...); resp and doc are the server's answer to
\* POST /tokens
Construct(method, default_datasource, secret, verify, resp, doc) ==
    /\ nextTok <= MaxLogins
    /\ doc.authToken = Token(nextTok)
    /\ IF method \notin {"https", "http"}
       THEN /\ last' = [op |-> "login", mgr |-> None, reqs |-> <<>>, log |-> <<>>,
                         out |-> Raise("ValueError", 0),
                         default_datasource |-> default_datasource,
                         secret |-> secret, resp |-> resp, doc |-> doc]
            /\ UNCHANGED <<session, nextTok>>
       ELSE IF secret.given /\ client_get_totp_token(secret.chars, clock).kind = "raise"
       THEN /\ last' = [op |-> "login", mgr |-> None, reqs |-> <<>>, log |-> <<>>,
                         out |-> client_get_totp_token(secret.chars, clock),
                         default_datasource |-> default_datasource,
                         secret |-> secret, resp |-> resp, doc |-> doc]
            /\ UNCHANGED <<session, nextTok>>
       ELSE LET err == ConstructionError(default_datasource, resp, doc)
                req == AuthenticatePost(method, verify, secret, clock)
                out == IF err = None THEN Return("Guacamole")
                       ELSE Raise(err, IF err = "HTTPError" THEN resp.status ELSE 0)
            IN /\ last' = [op |-> "login", mgr |-> None, reqs |-> <<req>>,
                           log |-> <<>>, out |-> out,
                           default_datasource |-> default_datasource,
                           secret |-> secret, resp |-> resp, doc |-> doc]
               /\ session' = IF err = None
                             THEN Constructed(method, default_datasource, verify, doc)
                             ELSE session
               /\ nextTok' = IF IssuesToken(resp, doc) THEN nextTok + 1 ELSE nextTok
    /\ UNCHANGED <<revoked, payload, edits, tree, found, clock, callers>>

\* construction without a secret
Login(method, default_datasource, verify, resp, doc) ==
    Construct(method, default_datasource, NoSecret, verify, resp, doc)

\* Logout: DELETE {base}/tokens/{token}; on success the token is cleared
Logout ==
    /\ session.exists
    /\ session.token # None
    /\ \E resp \in Responses :
        LET req == [method |-> "DELETE",
                    url |-> session.base_url \o <<"tokens", session.token>>,
                    params |-> <<>>, json |-> NoBody,
                    verify |-> session.verify, cookies |-> session.cookies]
            failed == resp.transport = "error" \/ RaisesForStatus(resp)
        IN /\ last' = [op |-> "logout", mgr |-> None, reqs |-> <<req>>, log |-> <<>>,
                       out |-> IF resp.transport = "error"
                               THEN Raise("ConnectionError", 0)
                               ELSE IF RaisesForStatus(resp)
                                    THEN Raise("HTTPError", resp.status)
                               ELSE Return(None)]
           /\ session' = IF failed THEN session ELSE [session EXCEPT !.token = None]
           /\ revoked' = IF failed THEN revoked ELSE revoked \cup {session.token}
    /\ UNCHANGED <<nextTok, payload, edits, tree, found, clock, callers>>

(***************************************************************************)
(* Manager operations as actions.  A manager is built from the session on  *)
(* each use (client.users, client.connections, ...), with the datasource   *)
(* the caller gives or None.                                               *)
(***************************************************************************)
DatasourceArgs == {None, "postgresql"}
Identifiers == {"1"}

Finish(name, mgr, c) ==
    /\ last' = Op(name, mgr, c)
    /\ session' = c.client
    /\ UNCHANGED <<nextTok, revoked, payload, edits, tree, found, clock, callers>>

\* client.<manager>.list(), the manager built with datasource ds
List(m, ds) ==
    /\ session.exists
    /\ \E resp \in Responses :
        LET c == Manager_list(session, ds, m, resp)
        IN /\ last' = [datasource |-> ds] @@ Op("list", m, c)
           /\ session' = c.client
           /\ UNCHANGED <<nextTok, revoked, payload, edits, tree, found, clock, callers>>

Details(m, ds, id) ==
    /\ session.exists
    /\ \E resp \in Responses :
        Finish("details", m,
               IF m = "activeConnections"
               THEN ActiveConnectionManager_details(session, ds, id, resp)
               ELSE Manager_details(session, ds, m, id, resp))

Create(m, ds) ==
    /\ session.exists
    /\ \E resp \in Responses :
        Finish("create", m,
               IF m = "users"
               THEN UserManager_create(session, ds, payload, resp)
               ELSE Manager_create(session, ds, m, payload, resp))

Update(m, ds, id) ==
    /\ session.exists
    /\ \E resp \in Responses :
        Finish("update", m,
               IF m = "users"
               THEN UserManager_update(session, ds, id, payload, resp)
               ELSE Manager_update(session, ds, m, id, payload, resp))

Delete(m, ds, id) ==
    /\ session.exists
    /\ \E resp \in Responses :
        Finish("delete", m,
               CASE m = "activeConnections"
                        -> ActiveConnectionManager_kill(session, ds, id, resp)
                 [] m = "userGroups"
                        -> UserGroupManager_delete(session, ds, id, resp)
                 [] OTHER -> Manager_delete(session, ds, m, id, resp))

(***************************************************************************)
(* Methods of Guacamole that go through __auth_request                     *)
(***************************************************************************)
ClientUrl(self, datasource, path) ==
    self.base_url \o
        <<"session", "data",
          IF Truthy(datasource) THEN datasource ELSE self.primary_datasource>>
        \o path

get_connections(self, datasource, resp) ==
    Called(AuthRequest(self, "GET",
               ClientUrl(self, datasource, <<"connectionGroups", "ROOT", "tree">>),
               NoBody,
               <<<<"permission", "UPDATE">>, <<"permission", "DELETE">>>>,
               TRUE, resp))

get_connection(self, connection_id, datasource, resp) ==
    Called(AuthRequest(self, "GET",
               ClientUrl(self, datasource, <<"connections", connection_id>>),
               NoBody, <<>>, TRUE, resp))

get_connection_parameters(self, connection_id, datasource, resp) ==
    Called(AuthRequest(self, "GET",
               ClientUrl(self, datasource, <<"connections", connection_id, "parameters">>),
               NoBody, <<>>, TRUE, resp))

\* c = get_connection(...); c["parameters"] = get_connection_parameters(...)
get_connection_full(self, connection_id, datasource, resp1, resp2) ==
    LET c == get_connection(self, connection_id, datasource, resp1)
        q == get_connection_parameters(c.client, connection_id, datasource, resp2)
    IN IF c.out.kind = "raise" THEN c
       ELSE [reqs |-> c.reqs \o q.reqs, log |-> c.log \o q.log,
             out |-> IF q.out.kind = "raise" THEN q.out
                     \* item assignment on a Response object
                     ELSE IF c.out.val = "response" THEN Raise("TypeError", 0)
                     ELSE c.out,
             client |-> q.client]

add_connection(self, p, datasource, resp) ==
    Called(AuthRequest(self, "POST", ClientUrl(self, datasource, <<"connections">>),
               Body(p), <<>>, TRUE, resp))

delete_connection(self, connection_id, datasource, resp) ==
    Called(AuthRequest(self, "DELETE",
               ClientUrl(self, datasource, <<"connections", connection_id>>),
               NoBody, <<>>, FALSE, resp))

delete_user(self, username, datasource, resp) ==
    Called(AuthRequest(self, "DELETE",
               ClientUrl(self, datasource, <<"users", username>>),
               NoBody, <<>>, TRUE, resp))

ClientMethods ==
    {"get_connections", "get_connection", "add_connection", "delete_connection",
     "delete_user"}

ClientCall(name, ds, id) ==
    /\ session.exists
    /\ \E resp \in Responses :
        Finish(name, "client",
               CASE name = "get_connections" -> get_connections(session, ds, resp)
                 [] name = "get_connection" -> get_connection(session, id, ds, resp)
                 [] name = "add_connection" -> add_connection(session, payload, ds, resp)
                 [] name = "delete_connection" -> delete_connection(session, id, ds, resp)
                 [] name = "delete_user" -> delete_user(session, id, ds, resp))

\* the second answer exists only when the first call returned
ClientGetConnectionFull(ds, id) ==
    /\ session.exists
    /\ \E resp1 \in Responses :
        \/ /\ resp1.transport = "error" \/ RaisesForStatus(resp1)
           /\ Finish("get_connection_full", "client",
                     get_connection_full(session, id, ds, resp1, resp1))
        \/ /\ resp1.transport = "ok" /\ ~RaisesForStatus(resp1)
           /\ \E resp2 \in Responses :
                Finish("get_connection_full", "client",
                       get_connection_full(session, id, ds, resp1, resp2))

(***************************************************************************)
(* The caller builds a payload: a deep copy of a template, then edits      *)
(***************************************************************************)
Templates ==
    {ORG_TEMPLATE, GROUP_TEMPLATE, PROFILE_TEMPLATE, RDP_TEMPLATE, SSH_TEMPLATE,
     VNC_TEMPLATE}

TopKeys == UNION {DOMAIN t : t \in Templates}

EditValues == {Str("x"), NoneVal, Dict(EmptyDict)}

\* building a payload is not an operation of the library: no call, no request
Built == [op |-> "payload", mgr |-> None, reqs |-> <<>>, log |-> <<>>, out |-> Return(None)]

PayloadCopy(t) ==
    /\ payload' = t
    /\ edits' = 0
    /\ last' = Built
    /\ UNCHANGED <<session, nextTok, revoked, tree, found, clock, callers>>

PayloadDel(k) ==
    /\ edits < MaxEdits
    /\ k \in DOMAIN payload
    /\ payload' = DelKey(payload, k)
    /\ edits' = edits + 1
    /\ last' = Built
    /\ UNCHANGED <<session, nextTok, revoked, tree, found, clock, callers>>

PayloadSet(k, v) ==
    /\ edits < MaxEdits
    /\ payload' = SetKey(payload, k, v)
    /\ payload' # payload
    /\ edits' = edits + 1
    /\ last' = Built
    /\ UNCHANGED <<session, nextTok, revoked, tree, found, clock, callers>>

\* validate_payload(payload, template, allow_partial) called on its own
Validate(template, allow_partial) ==
    /\ last' = [op |-> "validate_payload", mgr |-> None, reqs |-> <<>>, log |-> <<>>,
                out |-> IF ValidateRaises(payload, template, allow_partial)
                        THEN Raise("ValueError", 0) ELSE Return(None),
                template |-> template, allow_partial |-> allow_partial]
    /\ UNCHANGED <<session, nextTok, revoked, payload, edits, tree, found, clock, callers>>

(***************************************************************************)
(* The connection tree, as GET connectionGroups/ROOT/tree returns it.      *)
(* tree[i] is node i; node 1 is the root group.  A group's child lists     *)
(* hold its children in index order.  A group's child key is present when  *)
(* the list is not empty, or when the server writes empty lists            *)
(* (emptyKeys); a connection has neither key.                              *)
(***************************************************************************)
Names == {<<"a">>, <<"b", "a">>}

\* search targets: names, a pattern and a name no node has
Targets == {<<"a">>, <<"b", "a">>, <<"^", "b">>, <<"c">>}

Node(name, kind, parent, emptyKeys) ==
    [name |-> name, kind |-> kind, parent |-> parent, emptyKeys |-> emptyKeys]

KindOf(key) == IF key = "childConnections" THEN "connection" ELSE "group"

\* data[key]
Children(t, i, key) ==
    SelectSeq([j \in 1..Len(t) |-> j],
              LAMBDA j : t[j].parent = i /\ t[j].kind = KindOf(key))

\* key in data
HasChildKey(t, i, key) ==
    t[i].kind = "group" /\ (t[i].emptyKeys \/ Children(t, i, key) # <<>>)

IsPrefix(p, x) == Len(p) <= Len(x) /\ SubSeq(x, 1, Len(p)) = p

IsInfix(p, x) ==
    \E k \in 0..(Len(x) - Len(p)) : SubSeq(x, k + 1, k + Len(p)) = p

\* re.search(name, x) for a pattern of literal characters with an optional
\* leading ^
ReSearch(pattern, x) ==
    IF pattern # <<>> /\ Head(pattern) = "^"
    THEN IsPrefix(Tail(pattern), x)
    ELSE IsInfix(pattern, x)

\* (regex and re.search(name, x["name"])) or (not regex and x["name"] == name)
Matches(t, i, name, regex) ==
    IF regex THEN ReSearch(name, t[i].name) ELSE t[i].name = name

\* None
Absent == 0

RECURSIVE FindByName(_, _, _, _, _, _)
RECURSIVE FirstFound(_, _, _, _, _, _)
RECURSIVE get_connection_by_name(_, _, _, _)
RECURSIVE FirstConnection(_, _, _, _)
RECURSIVE get_connection_group_by_name(_, _, _, _)
RECURSIVE FirstGroup(_, _, _, _)

\* for child in data[child_key]: result = _find_by_name(...); if result: return result
FirstFound(t, seq, name, key, child_key, regex) ==
    IF seq = <<>> THEN Absent
    ELSE LET r == FindByName(t, Head(seq), name, key, child_key, regex)
         IN IF r # Absent THEN r
            ELSE FirstFound(t, Tail(seq), name, key, child_key, regex)

FindByNameNoDescent(t, data, name, key, child_key, regex) ==
    LET own == IF Matches(t, data, name, regex) THEN data ELSE Absent
        direct == SelectSeq(Children(t, data, key),
                            LAMBDA x : Matches(t, x, name, regex))
    IN IF ~HasChildKey(t, data, key)
       THEN LET r == IF HasChildKey(t, data, child_key)
                     THEN FirstFound(t, Children(t, data, child_key),
                                     name, key, child_key, regex)
                     ELSE Absent
            IN IF r # Absent THEN r ELSE own
       ELSE IF direct # <<>> THEN direct[1] ELSE own

FindByNameNoSelf(t, data, name, key, child_key, regex) ==
    LET deeper == IF HasChildKey(t, data, child_key)
                  THEN FirstFound(t, Children(t, data, child_key),
                                  name, key, child_key, regex)
                  ELSE Absent
        direct == SelectSeq(Children(t, data, key),
                            LAMBDA x : Matches(t, x, name, regex))
    IN IF ~HasChildKey(t, data, key) THEN deeper
       ELSE IF direct # <<>> THEN direct[1] ELSE deeper

\* the child groups searched before the direct children
FindByNameDepthFirst(t, data, name, key, child_key, regex) ==
    LET own == IF Matches(t, data, name, regex) THEN data ELSE Absent
        deeper == IF HasChildKey(t, data, child_key)
                  THEN FirstFound(t, Children(t, data, child_key),
                                  name, key, child_key, regex)
                  ELSE Absent
        direct == SelectSeq(Children(t, data, key),
                            LAMBDA x : Matches(t, x, name, regex))
    IN IF deeper # Absent THEN deeper
       ELSE IF direct # <<>> THEN direct[1]
       ELSE own

\* utilities._find_by_name
FindByName(t, data, name, key, child_key, regex) ==
    LET own == IF Matches(t, data, name, regex) THEN data ELSE Absent
        deeper == IF HasChildKey(t, data, child_key)
                  THEN FirstFound(t, Children(t, data, child_key),
                                  name, key, child_key, regex)
                  ELSE Absent
        direct == SelectSeq(Children(t, data, key),
                            LAMBDA x : Matches(t, x, name, regex))
    IN IF ~HasChildKey(t, data, key)
       THEN IF deeper # Absent THEN deeper ELSE own
       ELSE IF direct # <<>> THEN direct[1]
            ELSE IF deeper # Absent THEN deeper ELSE own

\* utilities._find_connection_by_name
FindConnectionByName(t, connection_data, name, regex) ==
    FindByName(t, connection_data, name, "childConnections",
               "childConnectionGroups", regex)

\* utilities._find_connection_group_by_name
FindConnectionGroupByName(t, group_data, name, regex) ==
    FindByName(t, group_data, name, "childConnectionGroups",
               "childConnectionGroups", regex)

FirstConnection(t, seq, name, regex) ==
    IF seq = <<>> THEN Absent
    ELSE LET r == get_connection_by_name(t, Head(seq), name, regex)
         IN IF r # Absent THEN r ELSE FirstConnection(t, Tail(seq), name, regex)

\* Guacamole.__get_connection_by_name
get_connection_by_name(t, cons, name, regex) ==
    LET deeper == IF HasChildKey(t, cons, "childConnectionGroups")
                  THEN FirstConnection(t, Children(t, cons, "childConnectionGroups"),
                                       name, regex)
                  ELSE Absent
        res == SelectSeq(Children(t, cons, "childConnections"),
                         LAMBDA x : Matches(t, x, name, regex))
    IN IF ~HasChildKey(t, cons, "childConnections") THEN deeper
       ELSE IF res = <<>> THEN deeper ELSE res[1]

FirstGroup(t, seq, name, regex) ==
    IF seq = <<>> THEN Absent
    ELSE LET r == get_connection_group_by_name(t, Head(seq), name, regex)
         IN IF r # Absent THEN r ELSE FirstGroup(t, Tail(seq), name, regex)

\* Guacamole.__get_connection_group_by_name
get_connection_group_by_name(t, cons, name, regex) ==
    LET children == Children(t, cons, "childConnectionGroups")
        res == SelectSeq(children, LAMBDA x : Matches(t, x, name, regex))
    IN IF Matches(t, cons, name, regex) THEN cons
       ELSE IF HasChildKey(t, cons, "childConnectionGroups")
            THEN IF res # <<>> THEN res[1]
                 ELSE FirstGroup(t, children, name, regex)
            ELSE Absent

NoSearch ==
    [name |-> <<>>, regex |-> FALSE, searched |-> FALSE, connection |-> Absent,
     group |-> Absent, client_connection |-> Absent, client_group |-> Absent]

\* the server's tree grows: a group or a connection is added under a group;
\* one server writes every group the same way (emptyKeys of the root)
AddNode(parent, name, kind) ==
    /\ Len(tree) < MaxNodes
    /\ parent \in 1..Len(tree)
    /\ tree[parent].kind = "group"
    /\ tree' = Append(tree, Node(name, kind, parent, tree[1].emptyKeys))
    /\ found' = NoSearch
    /\ UNCHANGED <<session, nextTok, revoked, last, payload, edits, clock, callers>>

\* a search of the whole tree by name, through each of the four functions
Search(name, regex) ==
    /\ found' = [name |-> name, regex |-> regex, searched |-> TRUE,
                 connection |-> FindConnectionByName(tree, 1, name, regex),
                 group |-> FindConnectionGroupByName(tree, 1, name, regex),
                 client_connection |-> get_connection_by_name(tree, 1, name, regex),
                 client_group |-> get_connection_group_by_name(tree, 1, name, regex)]
    /\ UNCHANGED <<session, nextTok, revoked, last, payload, edits, tree, clock, callers>>

(***************************************************************************)
(* ConnectionManager.get_by_name and ConnectionGroupManager.get_by_name:   *)
(* cons = self.list(), then the tree search on cons.  list() answers with  *)
(* a mapping from identifier to resource, each resource a dictionary with  *)
(* a "name".                                                               *)
(***************************************************************************)
ResourceIds == {"1", "2"}
\* a name some resource may have, and a name no resource has
NameTargets == {<<"a">>, <<"c">>}

\* the documents GET {url} may answer with
\* (a resource is kept as its name)
Listings == UNION {[ids -> Names] : ids \in SUBSET ResourceIds}

\* _find_by_name on a mapping whose values are dictionaries with a "name"
FindByNameInMapping(data, name, key, child_key, regex) ==
    IF key \in DOMAIN data \/ child_key \in DOMAIN data
    \* for x in data[key]: x["name"], with x a key of a resource dictionary
    THEN Raise("TypeError", 0)
    \* data["name"]
    ELSE IF "name" \notin DOMAIN data THEN Raise("KeyError", 0)
    \* re.search(name, <a dictionary>); <a dictionary> == name
    ELSE IF regex THEN Raise("TypeError", 0)
    ELSE Return(None)

SearchKey(resource) ==
    IF resource = "connections" THEN "childConnections" ELSE "childConnectionGroups"

Manager_get_by_name(client, datasource, resource, name, regex, resp, listing) ==
    LET c == Manager_list(client, datasource, resource, resp)
    IN IF c.out.kind = "raise" THEN c
       ELSE [c EXCEPT !.out = FindByNameInMapping(listing, name, SearchKey(resource),
                                                  "childConnectionGroups", regex)]

GetByName(m, ds, name, regex) ==
    /\ session.exists
    /\ \E resp \in Responses, listing \in Listings :
        LET c == Manager_get_by_name(session, ds, m, name, regex, resp, listing)
        IN /\ last' = [op |-> "get_by_name", mgr |-> m, reqs |-> c.reqs,
                       log |-> c.log, out |-> c.out,
                       name |-> name, regex |-> regex, listing |-> listing]
           /\ session' = c.client
           /\ UNCHANGED <<nextTok, revoked, payload, edits, tree, found, clock, callers>>

(***************************************************************************)
(* Calls of the token functions as the clock advances                      *)
(***************************************************************************)
\* a secret, its lower-case form, its first five characters without and
\* with padding, and a secret with a character outside the alphabet
SecretUpper == <<"D", "R", "C", "K", "4", "M", "Y", "2">>
SecretLower == <<"d", "r", "c", "k", "4", "m", "y", "2">>
SecretUnpadded == <<"D", "R", "C", "K", "4">>
SecretPadded == <<"D", "R", "C", "K", "4", "=", "=", "=">>
SecretBadDigit == <<"D", "R", "C", "K", "4", "M", "Y", "1">>

Secrets == {SecretUpper, SecretLower, SecretUnpadded, SecretPadded, SecretBadDigit}

\* counters of direct get_hotp_token calls
Counters == {0, 1}

OtpOps == {"get_hotp_token", "get_totp_token"}

NoCall ==
    [op |-> "none", impl |-> None, secret |-> <<>>, counter |-> 0, now |-> 0,
     out |-> Raise("none", 0)]

\* the call before this one, when it was a call of the same function with the
\* same secret
Summary(l, op, impl, secret) ==
    IF l.op = op /\ l.impl = impl /\ l.secret = secret
    THEN [op |-> l.op, impl |-> l.impl, secret |-> l.secret, counter |-> l.counter,
          now |-> l.now, out |-> l.out]
    ELSE NoCall

OtpCall(op, impl, secret, counter, out) ==
    /\ last' = [op |-> op, mgr |-> None, reqs |-> <<>>, log |-> <<>>, out |-> out,
                impl |-> impl, secret |-> secret, counter |-> counter,
                now |-> clock, prev |-> Summary(last, op, impl, secret)]
    /\ UNCHANGED <<session, nextTok, revoked, payload, edits, tree, found, clock, callers>>

Hotp(impl, secret, counter) ==
    OtpCall("get_hotp_token", impl, secret, counter,
            IF impl = "utilities" THEN get_hotp_token(secret, counter)
            ELSE client_get_hotp_token(secret, counter))

Totp(impl, secret) ==
    OtpCall("get_totp_token", impl, secret, clock \div Period,
            IF impl = "utilities" THEN get_totp_token(secret, clock)
            ELSE client_get_totp_token(secret, clock))

\* digests for the truncation step: the last byte picks the offset, the four
\* bytes at the offset are a chosen window, every other byte is a filler
LastBytes == {0, 1, 15, 16, 127, 128, 254, 255}
Windows ==
    {<<0, 0, 0, 0>>, <<255, 255, 255, 255>>, <<128, 0, 0, 0>>, <<127, 255, 255, 255>>,
     <<0, 15, 66, 64>>, <<0, 15, 66, 63>>}
Fillers == {0, 255}

Digest(lastb, w, fill) ==
    [i \in 1..20 |->
        IF i = 20 THEN lastb
        ELSE IF i - 1 \in (lastb % 16)..((lastb % 16) + 3) THEN w[i - (lastb % 16)]
        ELSE fill]

DigestSamples ==
    {Digest(lastb, w, fill) : lastb \in LastBytes, w \in Windows, fill \in Fillers}
        \cup {Digests[k] : k \in DOMAIN Digests}

\* the last two lines of get_hotp_token, applied to the digest h
Truncation(impl) ==
    /\ last.op = "digest"
    /\ last' = [op |-> "truncate", mgr |-> None, reqs |-> <<>>, log |-> <<>>,
                out |-> Return(IntVal(Truncate(last.digest))),
                impl |-> impl, digest |-> last.digest, offset |-> Offset(last.digest)]
    /\ UNCHANGED <<session, nextTok, revoked, payload, edits, tree, found, clock, callers>>

\* time passes
Tick ==
    /\ clock < MaxTicks * TickSeconds
    /\ clock' = clock + TickSeconds
    /\ UNCHANGED <<session, nextTok, revoked, last, payload, edits, tree, found, callers>>

(***************************************************************************)
(* requester called directly, with a query-parameter dict the caller holds *)
(* and may pass again to the next call                                     *)
(***************************************************************************)
\* None, or a dict with one parameter
CallerMappings == {<<>>, <<<<"permission", "READ">>>>}

\* the token argument: None, or the token of some other session
TokenArgs == {None, "T0"}

\* the caller builds a new dict
NewMapping(m) ==
    /\ mapping' = m
    /\ mapping' # mapping
    /\ UNCHANGED <<session, nextTok, revoked, last, payload, edits, tree, found, clock,
                   threads, wire>>

\* requester(client, url, params=mapping, token=token)
RequesterCall(token) ==
    /\ session.exists
    /\ \E resp \in Responses :
        LET r == Requester(session, ManagerUrl(session, None, "connections"), "GET",
                           mapping, NoBody, token, TRUE, resp)
        IN /\ last' = [op |-> "requester", mgr |-> None, reqs |-> r.reqs, log |-> r.log,
                       out |-> r.out, params |-> mapping, token |-> token]
           /\ session' = r.client
           /\ mapping' = r.params
    /\ UNCHANGED <<nextTok, revoked, payload, edits, tree, found, clock, threads, wire>>

(***************************************************************************)
(* Manager operations from several threads that share the client object.   *)
(* A thread goes through requester in steps: it reads the client and       *)
(* builds the request, requests.request sends it on a connection of its    *)
(* own, the server answers, the thread reads the answer and returns.       *)
(***************************************************************************)
Threads == {1, 2}

\* the read operations the threads run
ThreadOps ==
    {[mgr |-> "users", op |-> "list"], [mgr |-> "connections", op |-> "list"],
     [mgr |-> "activeConnections", op |-> "details"]}

NoRequest == [method |-> None]
NoAnswer == [transport |-> "none"]

Idle ==
    [pc |-> "idle", mgr |-> None, op |-> None, req |-> NoRequest,
     got |-> [for |-> NoRequest, resp |-> NoAnswer], out |-> Return(None)]

Closed == [req |-> NoRequest, resp |-> NoAnswer]

NoCallers ==
    /\ mapping = <<>>
    /\ threads = [t \in Threads |-> Idle]
    /\ wire = [c \in Threads |-> Closed]

\* every thread on one connection
SharedConnection(t) == 1

\* requests.request(...): a Session, and so a connection, for this call alone
ConnectionOf(t) == t

ThreadUrl(o) ==
    IF o.op = "list" THEN ManagerUrl(session, None, o.mgr)
    ELSE ManagerUrl(session, None, o.mgr) \o <<"1">>

\* params = params or {} ... params["token"] = token
Prepare(t, o) ==
    /\ session.exists
    /\ threads[t].pc \in {"idle", "done"}
    /\ threads' = [threads EXCEPT ![t] =
            [pc |-> "prepared", mgr |-> o.mgr, op |-> o.op,
             req |-> Request("GET", ThreadUrl(o), RequestParams(<<>>, None, session),
                             NoBody, session.verify, session.cookies),
             got |-> Idle.got, out |-> Return(None)]]
    /\ UNCHANGED <<session, nextTok, revoked, last, payload, edits, tree, found, clock,
                   mapping, wire>>

\* response = requests.request(...): the request leaves
Send(t) ==
    /\ threads[t].pc = "prepared"
    /\ threads' = [threads EXCEPT ![t].pc = "sent"]
    /\ wire' = [wire EXCEPT ![ConnectionOf(t)] = [req |-> threads[t].req, resp |-> NoAnswer]]
    /\ UNCHANGED <<session, nextTok, revoked, last, payload, edits, tree, found, clock,
                   mapping>>

\* the server answers the request on connection c
Answer(c, resp) ==
    /\ wire[c].req # NoRequest
    /\ wire[c].resp = NoAnswer
    /\ wire' = [wire EXCEPT ![c].resp = resp]
    /\ UNCHANGED <<session, nextTok, revoked, last, payload, edits, tree, found, clock,
                   mapping, threads>>

\* what the manager method makes of requester's outcome
ThreadOutcome(o, resp) ==
    LET out == RequesterOutcome(resp, TRUE)
    IN IF o.mgr = "activeConnections" /\ out = Raise("HTTPError", 404)
       THEN Return(None) ELSE out

\* requests.request returns; raise_for_status, response.json(), return
Receive(t) ==
    LET c == ConnectionOf(t)
    IN /\ threads[t].pc = "sent"
       /\ wire[c].resp # NoAnswer
       /\ threads' = [threads EXCEPT ![t] =
               [@ EXCEPT !.pc = "done",
                         !.got = [for |-> wire[c].req, resp |-> wire[c].resp],
                         !.out = ThreadOutcome(threads[t], wire[c].resp)]]
       /\ wire' = [wire EXCEPT ![c] = Closed]
       /\ UNCHANGED <<session, nextTok, revoked, last, payload, edits, tree, found, clock,
                      mapping>>

(***************************************************************************)
(* Specifications                                                          *)
(***************************************************************************)
NoOp == [op |-> "none", mgr |-> None, reqs |-> <<>>, log |-> <<>>, out |-> Return(None)]

\* no session yet; the caller holds a payload copied from SSH_TEMPLATE
Init ==
    /\ session = NoSession
    /\ nextTok = 1
    /\ revoked = {}
    /\ last = NoOp
    /\ payload = SSH_TEMPLATE
    /\ edits = 0
    /\ tree = <<Node(<<"a">>, "group", 0, FALSE)>>
    /\ found = NoSearch
    /\ clock = 0
    /\ NoCallers

ManagerStep ==
    \E ds \in DatasourceArgs, id \in Identifiers :
        \/ \E m \in Managers : List(m, ds)
        \/ \E m \in Managers : Details(m, ds, id)
        \/ \E m \in CrudManagers : Create(m, ds)
        \/ \E m \in CrudManagers : Update(m, ds, id)
        \/ \E m \in Managers : Delete(m, ds, id)

ClientStep ==
    \E ds \in DatasourceArgs, id \in Identifiers :
        \/ \E name \in ClientMethods : ClientCall(name, ds, id)
        \/ ClientGetConnectionFull(ds, id)

\* the document a Guacamole server answers a successful login with
ServerDoc == 
    [keys |-> LoginKeys, authToken |-> Token(nextTok), dataSource |-> "mysql",
     availableDataSources |-> Datasources]

LoginStep ==
    \E method \in {"https", "ftp"}, resp \in Responses :
        Login(method, None, TRUE, resp, ServerDoc)

Next ==
    \/ LoginStep
    \/ Logout
    \/ ManagerStep
    \/ ClientStep

Spec == Init /\ [][Next]_vars

\* construction alone, with every answer the server may give
LoginAny ==
    \E method \in {"https", "ftp"}, dds \in DatasourceArgs, verify \in BOOLEAN :
        \/ \E resp \in {r \in Responses : r.body = "text" \/ RaisesForStatus(r)} :
                Login(method, dds, verify, resp, ServerDoc)
        \/ \E resp \in {r \in Responses : r.body = "json" /\ ~RaisesForStatus(r)},
              doc \in LoginDocs(Token(nextTok)) :
                Login(method, dds, verify, resp, doc)

NextLogin == LoginAny \/ Logout

SpecLogin == Init /\ [][NextLogin]_vars

\* the session after a login without arguments
LoggedIn ==
    Constructed("https", None, TRUE,
                [keys |-> LoginKeys, authToken |-> Token(1),
                 dataSource |-> "mysql", availableDataSources |-> Datasources])

\* payload construction and the validating operations, on a logged-in session
InitPayload ==
    /\ session = LoggedIn
    /\ nextTok = 2
    /\ revoked = {}
    /\ last = NoOp
    /\ payload = EmptyDict
    /\ edits = 0
    /\ tree = <<Node(<<"a">>, "group", 0, FALSE)>>
    /\ found = NoSearch
    /\ clock = 0
    /\ NoCallers

\* the caller builds a payload, passes it to one call, and starts the next
\* payload from a template
PayloadReady == last.op \in {"none", "payload"}

NextPayload ==
    \/ \E t \in Templates : PayloadCopy(t)
    \/ \E k \in TopKeys : PayloadReady /\ PayloadDel(k)
    \/ \E k \in TopKeys, v \in EditValues : PayloadReady /\ PayloadSet(k, v)
    \/ \E m \in CrudManagers : PayloadReady /\ Create(m, None)
    \/ \E m \in CrudManagers, id \in Identifiers :
            PayloadReady /\ Update(m, None, id)
    \/ \E t \in Templates, allow_partial \in BOOLEAN :
            PayloadReady /\ Validate(t, allow_partial)

SpecPayload == InitPayload /\ [][NextPayload]_vars

\* lookups by name on a logged-in session
NextLookup ==
    \E m \in {"connections", "connectionGroups"}, ds \in DatasourceArgs,
       name \in NameTargets, regex \in BOOLEAN :
        GetByName(m, ds, name, regex)

SpecLookup == InitPayload /\ [][NextLookup]_vars

\* the token functions and construction with a secret, as time passes
LoginOtp ==
    \E secret \in {NoSecret} \cup {Secret(s) : s \in Secrets},
       resp \in {r \in Responses : r.body = "json" /\ r.status \in {200, 401}} :
        Construct("https", None, secret, TRUE, resp, ServerDoc)

NextOtp ==
    \/ Tick
    \/ \E impl \in {"utilities", "client"}, secret \in Secrets, counter \in Counters :
            Hotp(impl, secret, counter)
    \/ \E impl \in {"utilities", "client"}, secret \in Secrets : Totp(impl, secret)
    \/ LoginOtp

SpecOtp == Init /\ [][NextOtp]_vars

\* dynamic truncation on a range of digests
InitTruncate ==
    /\ session = NoSession
    /\ nextTok = 1
    /\ revoked = {}
    /\ \E h \in DigestSamples :
            last = [op |-> "digest", mgr |-> None, reqs |-> <<>>, log |-> <<>>,
                    out |-> Return(None), digest |-> h]
    /\ payload = EmptyDict
    /\ edits = 0
    /\ tree = <<Node(<<"a">>, "group", 0, FALSE)>>
    /\ found = NoSearch
    /\ clock = 0
    /\ NoCallers

NextTruncate == \E impl \in {"utilities", "client"} : Truncation(impl)

SpecTruncate == InitTruncate /\ [][NextTruncate]_vars

\* direct calls of requester with a dict of the caller
NextRequester ==
    \/ \E m \in CallerMappings : NewMapping(m)
    \/ \E token \in TokenArgs : RequesterCall(token)

SpecRequester == InitPayload /\ [][NextRequester]_vars

\* threads sharing the logged-in client, with no login or logout
NextThreads ==
    \/ \E t \in Threads, o \in ThreadOps : Prepare(t, o)
    \/ \E t \in Threads : Send(t)
    \/ \E c \in Threads, resp \in Responses : Answer(c, resp)
    \/ \E t \in Threads : Receive(t)

SpecThreads == InitPayload /\ [][NextThreads]_vars

\* the tree search functions on every tree the server may hold
InitTree ==
    /\ session = NoSession
    /\ nextTok = 1
    /\ revoked = {}
    /\ last = NoOp
    /\ payload = EmptyDict
    /\ edits = 0
    /\ \E name \in Names, emptyKeys \in BOOLEAN :
            tree = <<Node(name, "group", 0, emptyKeys)>>
    /\ found = NoSearch
    /\ clock = 0
    /\ NoCallers

NextTree ==
    \/ \E parent \in 1..MaxNodes, name \in Names, kind \in {"group", "connection"} :
            AddNode(parent, name, kind)
    \/ \E name \in Targets, regex \in BOOLEAN : Search(name, regex)

SpecTree == InitTree /\ [][NextTree]_vars

(***************************************************************************)
(* Properties                                                              *)
(***************************************************************************)
Range(seq) == {seq[i] : i \in 1..Len(seq)}

\* the last step was an operation that went through a dispatcher
Dispatched == Len(last.log) > 0

\* the query parameters the caller of the dispatcher supplied
Supplied ==
    IF last.op = "get_connections"
    THEN {<<"permission", "UPDATE">>, <<"permission", "DELETE">>}
    ELSE {}

Failed(resp) == resp.transport = "error" \/ resp.status >= 400

\* C1: on a logged-in session, every request a dispatcher issues carries the
\* query parameter token with the session's token as its only value, together
\* with every query parameter the caller supplied.
C1_TokenOnEveryRequest ==
    (Dispatched /\ session.token # None) =>
        \A req \in Range(last.reqs) :
            /\ <<"token", session.token>> \in Range(Query(req))
            /\ \A kv \in Range(Query(req)) : kv[1] = "token" => kv[2] = session.token
            /\ Supplied \subseteq Range(Query(req))

C1_Witness ==
    /\ last.op = "get_connections"
    /\ session.token = Token(1)
    /\ Len(last.reqs) = 1
    /\ Len(Query(last.reqs[1])) = 3

\* C2 as stated: for every response with a status outside 200..299 the
\* dispatcher raises an HTTP error carrying that status, and only the methods
\* documenting a 404 or 500 conversion turn it into an absent result.
C2_Original ==
    \A e \in Range(last.log) :
        (e.resp.transport = "ok" /\ ~(e.resp.status \in 200..299)) =>
            /\ e.out = Raise("HTTPError", e.resp.status)
            /\ (last.out # e.out =>
                    \/ last.mgr = "activeConnections" /\ e.resp.status = 404
                    \/ last.mgr = "userGroups" /\ last.op = "delete"
                           /\ e.resp.status = 500)

\* C2 amended: the dispatcher raises an HTTP error carrying the status exactly
\* for the statuses 400..599; a status below 400 outside 200..299 (304) is
\* treated like a success.  A manager method passes the error on, except
\* ActiveConnectionManager.details and kill (404), UserGroupManager.delete
\* (500) and the validating managers' create (400), which return None.
C2_RaisesFrom400 ==
    \A e \in Range(last.log) :
        e.resp.transport = "ok" =>
            /\ (e.resp.status \in 400..599) <=> (e.out = Raise("HTTPError", e.resp.status))
            /\ (e.resp.status < 400) => e.out.exc \in {None, "JSONDecodeError"}
            /\ (last.mgr \in Managers /\ e.out.exc = "HTTPError") =>
                 IF \/ last.mgr = "activeConnections" /\ last.op \in {"details", "delete"}
                          /\ e.resp.status = 404
                    \/ last.mgr = "userGroups" /\ last.op = "delete" /\ e.resp.status = 500
                    \/ last.mgr \in ValidatingManagers /\ last.op = "create"
                          /\ e.resp.status = 400
                 THEN last.out = Return(None)
                 ELSE last.out = e.out

C2_Witness ==
    /\ last.mgr = "users" /\ last.op = "list"
    /\ Len(last.log) = 1
    /\ last.log[1].resp.status = 502
    /\ last.out = Raise("HTTPError", 502)

TemplateKeys(m) ==
    IF m = "connections"
    THEN DOMAIN RDP_TEMPLATE \cup DOMAIN SSH_TEMPLATE \cup DOMAIN VNC_TEMPLATE
    ELSE DOMAIN TemplateOf(m)

\* C4: create and update of the validating managers raise a validation error
\* and issue no HTTP request whenever the payload lacks a top-level key of the
\* manager's template.
C4_ValidationBeforeRequest ==
    (/\ last.op \in {"create", "update"}
     /\ last.mgr \in ValidatingManagers
     /\ ~(TemplateKeys(last.mgr) \subseteq DOMAIN payload)) =>
        /\ last.out = Raise("ValueError", 0)
        /\ last.reqs = <<>>
        /\ last.log = <<>>

C4_Witness ==
    /\ last.op = "create" /\ last.mgr = "connectionGroups"
    /\ payload = DelKey(ORG_TEMPLATE, "type")
    /\ last.out = Raise("ValueError", 0)

\* C5: after a successful construction the session holds the login response's
\* authToken and availableDataSources, and as primary datasource the caller's
\* default_datasource when given, else the response's dataSource; a login
\* whose request fails raises and stores nothing; the session changes by a
\* successful login only (or by logout).
C5_SessionFromLogin ==
    [][/\ last'.op = "login" =>
            /\ (last'.reqs # <<>> /\ Failed(last'.resp)) =>
                    last'.out.kind = "raise"
            /\ last'.out.kind = "raise" => session' = session
            /\ last'.out.kind = "return" =>
                /\ session'.exists
                /\ session'.token = last'.doc.authToken
                /\ session'.datasources = last'.doc.availableDataSources
                /\ session'.primary_datasource =
                     IF Truthy(last'.default_datasource)
                     THEN last'.default_datasource ELSE last'.doc.dataSource
       /\ session' # session =>
            \/ last'.op = "login" /\ last'.out.kind = "return"
            \/ last'.op = "logout"]_vars

C5_Witness ==
    /\ last.op = "login" /\ last.out.kind = "return"
    /\ last.default_datasource = "postgresql"
    /\ last.doc.dataSource = "mysql"
    /\ session.primary_datasource = "postgresql"
    /\ session.token = Token(1)

C7_OneRequestPerCall ==
    last.op \notin {"login", "logout"} =>
        /\ Len(last.reqs) = Len(last.log)
        /\ \A req \in Range(last.reqs) : req.url[Len(req.url)] # "tokens"
        /\ \A i \in 1..Len(last.log) :
              Failed(last.log[i].resp) =>
                  /\ last.log[i].out.kind = "raise"
                  /\ i = Len(last.log)

C7_Witness ==
    /\ last.mgr = "connections" /\ last.op = "details"
    /\ Len(last.log) = 1 /\ Len(last.reqs) = 1
    /\ last.log[1].resp.transport = "ok" /\ last.log[1].resp.status = 500
    /\ last.out = Raise("HTTPError", 500)

\* C8: a dispatcher call, successful or not, leaves the session as it was:
\* token, base URL, primary datasource, datasources and TLS verification.
C8_SessionUnchanged ==
    [][Len(last'.log) > 0 => session' = session]_vars

C8_Witness ==
    /\ Dispatched
    /\ last.out = Raise("HTTPError", 401)
    /\ session.token = Token(1)

NodeIds == 1..Len(tree)

\* number of groups above node i
RECURSIVE Depth(_)
Depth(i) == IF tree[i].parent = 0 THEN 0 ELSE 1 + Depth(tree[i].parent)

MatchingNodes(kinds) ==
    {j \in NodeIds : tree[j].kind \in kinds /\ Matches(tree, j, found.name, found.regex)}

\* C9: a search for a connection returns a node with a matching name
\* whenever some connection at any depth matches (equality, or re.search in
\* regex mode), and returns None when no node of the tree matches.
C9_ConnectionSearch ==
    found.searched =>
        \A r \in {found.connection, found.client_connection} :
            /\ MatchingNodes({"connection"}) # {} =>
                    r \in MatchingNodes({"connection", "group"})
            /\ MatchingNodes({"connection", "group"}) = {} => r = Absent

C9_Witness ==
    /\ found.searched
    /\ Len(tree) = 4
    /\ tree[4].kind = "connection" /\ Depth(4) = 3
    /\ MatchingNodes({"connection", "group"}) = {4}
    /\ found.connection = 4 /\ found.client_connection = 4

\* C10 as stated: searching the tree for the root group's own name returns the
\* root node itself, from either implementation.
C10_Original ==
    (found.searched /\ ~found.regex /\ found.name = tree[1].name) =>
        found.group = 1 /\ found.client_group = 1

\* What the two implementations do for the root's own name:
\* _find_connection_group_by_name tests a node's children and descendants
\* before the node itself, so it returns the root exactly when no descendant
\* group matches the target and a matching descendant otherwise;
\* Guacamole.__get_connection_group_by_name tests the node first and returns
\* the root.
RootUnlessDescendant ==
    (found.searched /\ found.name = tree[1].name) =>
        /\ found.client_group = 1
        /\ found.group \in MatchingNodes({"group"})
        /\ found.group = 1 <=> MatchingNodes({"group"}) = {1}

\* the two implementations disagree on a tree whose root has a descendant
\* group of the same name
SelfMatchDiverges ==
    /\ found.searched /\ ~found.regex /\ found.name = tree[1].name
    /\ found.client_group = 1 /\ found.group # 1

\* C11: a search for a connection returns None or a connection (an element
\* of some group's childConnections), never a connection group.
C11_OnlyConnections ==
    found.searched =>
        \/ found.connection = Absent
        \/ tree[found.connection].kind = "connection"

\* what _find_connection_by_name does instead: when no connection matches it
\* applies the own-name test to the groups and returns a matching group
ConnectionSearchReturnsGroup ==
    /\ found.searched
    /\ MatchingNodes({"connection"}) = {}
    /\ found.connection # Absent
    /\ tree[found.connection].kind = "group"

\* the resources of the listing whose name matches the target
Listed ==
    {id \in DOMAIN last.listing :
        IF last.regex THEN ReSearch(last.name, last.listing[id])
        ELSE last.listing[id] = last.name}

\* C12: once list() has returned its mapping, get_by_name returns the
\* resource whose name matches when the mapping holds one and None when it
\* holds none; it does not raise.
C12_GetByName ==
    (/\ last.op = "get_by_name"
     /\ Len(last.log) = 1
     /\ last.log[1].out = Return("json")) =>
        /\ last.out.kind = "return"
        /\ Listed = {} <=> last.out = Return(None)

\* what get_by_name does instead: the mapping has no key "name"
GetByNameRaisesKeyError ==
    /\ last.op = "get_by_name"
    /\ Len(last.log) = 1
    /\ last.log[1].out = Return("json")
    /\ last.out = Raise("KeyError", 0)

IsDigits(s) == \A i \in 1..Len(s) : InSeq(DigitChars, s[i])

\* a string of exactly six decimal digits
SixDigits(v) == v.t = "str" /\ Len(v.s) = Digits /\ IsDigits(v.s)

\* C13 as stated: get_hotp_token gives the same result for the same secret
\* and counter whatever the time, and the result is a string of six decimal
\* digits, left-padded with zeros.
C13_Original ==
    last.op = "get_hotp_token" =>
        /\ last.out.kind = "return" => SixDigits(last.out.val)
        /\ (last.prev.op = "get_hotp_token" /\ last.prev.counter = last.counter) =>
                last.prev.out = last.out

\* C13 amended: get_hotp_token gives the same result for the same secret and
\* counter whatever the time; for a secret that decodes, the result is an
\* integer in 0..999999, neither a string nor padded.
C13_HotpDeterministic ==
    last.op = "get_hotp_token" =>
        /\ B32Error(last.secret, TRUE) = None => last.out.kind = "return"
        /\ last.out.kind = "return" =>
                last.out.val.t = "int" /\ last.out.val.n \in 0..(Modulus - 1)
        /\ (last.prev.op = "get_hotp_token" /\ last.prev.counter = last.counter) =>
                last.prev.out = last.out

C13_Witness ==
    /\ last.op = "get_hotp_token" /\ last.prev.op = "get_hotp_token"
    /\ last.secret = SecretUpper
    /\ last.counter = 1 /\ last.prev.counter = 1
    /\ last.prev.now < last.now
    /\ last.out = Return(IntVal(42))

\* C14: with a fixed secret, two calls of get_totp_token made at times in the
\* same 30-second window (equal floor(time / 30)) return the same code.
C14_TotpWindow ==
    (/\ last.op = "get_totp_token"
     /\ last.prev.op = "get_totp_token"
     /\ last.prev.now \div Period = last.now \div Period) =>
        last.prev.out = last.out

C14_Witness ==
    /\ last.op = "get_totp_token" /\ last.prev.op = "get_totp_token"
    /\ last.impl = "utilities" /\ last.secret = SecretUpper
    /\ last.prev.now < last.now
    /\ last.prev.now \div Period = last.now \div Period
    /\ last.out = Return(StrVal(<<"0", "0", "0", "0", "4", "2">>))

\* the guac-totp values of a login request
TotpSent(req) == {kv[2] : kv \in {x \in Range(req.data) : x[1] = "guac-totp"}}

\* C15: the login request carries guac-totp exactly when a secret is
\* configured, and its value is a string of six decimal digits, left-padded
\* with zeros.
C15_TotpSixDigits ==
    (last.op = "login" /\ last.reqs # <<>>) =>
        IF last.secret.given
        THEN /\ TotpSent(last.reqs[1]) # {}
             /\ \A v \in TotpSent(last.reqs[1]) : Len(v) = Digits /\ IsDigits(v)
        ELSE TotpSent(last.reqs[1]) = {}

\* what __authenticate does instead: the derived value 42 is sent as "42"
TotpSentUnpadded ==
    /\ last.op = "login" /\ last.reqs # <<>>
    /\ last.secret = Secret(SecretUpper)
    /\ TotpSent(last.reqs[1]) = {<<"4", "2">>}

\* the last call of a token function, made again with another secret
Recomputed(secret) ==
    CASE last.op = "get_hotp_token" /\ last.impl = "utilities"
            -> get_hotp_token(secret, last.counter)
      [] last.op = "get_hotp_token" /\ last.impl = "client"
            -> client_get_hotp_token(secret, last.counter)
      [] last.op = "get_totp_token" /\ last.impl = "utilities"
            -> get_totp_token(secret, last.now)
      [] last.op = "get_totp_token" /\ last.impl = "client"
            -> client_get_totp_token(secret, last.now)

\* C16: a secret whose characters are all in the base32 alphabet, in either
\* case, yields a code whatever its length (missing padding accepted), and a
\* lower-case secret yields the code of its upper-case form.
C16_LooseSecret ==
    last.op \in OtpOps =>
        /\ (\A i \in 1..Len(last.secret) : InSeq(B32Alphabet, Upper(last.secret[i]))) =>
                last.out.kind = "return"
        /\ last.out = Recomputed([i \in 1..Len(last.secret) |-> Upper(last.secret[i])])

\* what the token functions do instead: a secret without its padding raises
UnpaddedSecretRaises ==
    /\ last.op \in OtpOps
    /\ last.secret = SecretUnpadded
    /\ last.out = Raise("binascii.Error", 0)

\* the case-insensitive half of C16 holds
LowerCaseSameCode ==
    (last.op \in OtpOps /\ last.secret = SecretLower) =>
        last.out.kind = "return" /\ last.out = Recomputed(SecretUpper)

\* C17: with allow_partial=False, validate_payload raises exactly when a
\* top-level key of the template is missing from the payload or is None in
\* it; a nested dictionary that is empty or omits keys of the template's
\* nested dictionary is accepted.
C17_NestedPartial ==
    (last.op = "validate_payload" /\ ~last.allow_partial) =>
        (last.out = Raise("ValueError", 0)) <=>
            \E key \in DOMAIN last.template :
                key \notin DOMAIN payload \/ payload[key].t = "None"

C17_Witness ==
    /\ last.op = "validate_payload" /\ ~last.allow_partial
    /\ last.template = ORG_TEMPLATE
    /\ payload = SetKey(ORG_TEMPLATE, "attributes", Dict(EmptyDict))
    /\ last.out = Return(None)

\* C18: with allow_partial=False, validate_payload raises ValueError when
\* the payload gives a string for a key whose template value is a dictionary.
C18_TypeChecked ==
    (/\ last.op = "validate_payload" /\ ~last.allow_partial
     /\ \E key \in DOMAIN last.template \cap DOMAIN payload :
            last.template[key].t = "dict" /\ payload[key].t = "str") =>
        last.out = Raise("ValueError", 0)

\* what validate_payload does instead: the string is accepted
StringForDictAccepted ==
    /\ last.op = "validate_payload" /\ ~last.allow_partial
    /\ last.template = ORG_TEMPLATE
    /\ payload = SetKey(ORG_TEMPLATE, "attributes", Str("x"))
    /\ last.out = Return(None)

\* C19: create of ConnectionManager, ConnectionGroupManager, UserGroupManager
\* and SharingProfileManager, given a payload that passes validation, sends
\* one request and returns None exactly when the server answers 400, returns
\* the decoded body on a 2xx answer with a JSON body, and raises the HTTP
\* error with its status for every other status from 400 up.
C19_CreateConflict ==
    (/\ last.op = "create" /\ last.mgr \in ValidatingManagers
     /\ ~PayloadRejected(last.mgr, payload)) =>
        /\ Len(last.log) = 1
        /\ LET r == last.log[1].resp
           IN  /\ (last.out = Return(None)) <=> (r.transport = "ok" /\ r.status = 400)
               /\ (r.transport = "ok" /\ r.status \in 200..299 /\ r.body = "json") =>
                      last.out = Return("json")
               /\ (r.transport = "ok" /\ r.status \in 400..599 /\ r.status # 400) =>
                      last.out = Raise("HTTPError", r.status)

C19_Witness ==
    /\ last.op = "create" /\ last.mgr = "connectionGroups"
    /\ payload = ORG_TEMPLATE
    /\ Len(last.log) = 1
    /\ last.log[1].resp.status = 400
    /\ last.out = Return(None)

\* C20: UserGroupManager.delete returns None exactly when the server answers
\* 500, returns the raw response on a 2xx answer, and raises the HTTP error
\* with its status for every other status from 400 up (404 and 502 included).
C20_GroupDelete ==
    (last.op = "delete" /\ last.mgr = "userGroups") =>
        /\ Len(last.log) = 1
        /\ LET r == last.log[1].resp
           IN  /\ (last.out = Return(None)) <=> (r.transport = "ok" /\ r.status = 500)
               /\ (r.transport = "ok" /\ r.status \in 200..299) =>
                      last.out = Return("response")
               /\ (r.transport = "ok" /\ r.status \in 400..599 /\ r.status # 500) =>
                      last.out = Raise("HTTPError", r.status)

C20_Witness ==
    /\ last.op = "delete" /\ last.mgr = "userGroups"
    /\ Len(last.log) = 1
    /\ last.log[1].resp.status = 500
    /\ last.out = Return(None)

\* C21: ActiveConnectionManager.details and kill return None exactly when the
\* server answers 404 and raise the HTTP error with its status for every other
\* status from 400 up; details and delete of every other manager raise the
\* HTTP error on a 404.
C21_NotFoundAbsent ==
    (last.mgr \in Managers /\ last.op \in {"details", "delete"}) =>
        /\ Len(last.log) = 1
        /\ LET r == last.log[1].resp
           IN  IF last.mgr = "activeConnections"
               THEN /\ (last.out = Return(None)) <=> (r.transport = "ok" /\ r.status = 404)
                    /\ (r.transport = "ok" /\ r.status \in 400..599 /\ r.status # 404) =>
                           last.out = Raise("HTTPError", r.status)
               ELSE (r.transport = "ok" /\ r.status = 404) =>
                           last.out = Raise("HTTPError", 404)

C21_Witness ==
    /\ last.mgr = "activeConnections" /\ last.op = "delete"
    /\ Len(last.log) = 1
    /\ last.log[1].resp.status = 404
    /\ last.out = Return(None)

\* C22: a manager's list() issues exactly one request, a GET of
\* {base}/session/data/{ds}/{resource} with the session token as the query
\* parameter token, ds being the datasource given to the manager or, when none
\* was given, the session's primary datasource; on a 200 answer with a JSON
\* body the decoded document is what the caller gets.
C22_ListRequest ==
    (last.op = "list" /\ last.mgr \in Managers /\ session.token # None) =>
        /\ Len(last.reqs) = 1
        /\ last.reqs[1].method = "GET"
        /\ last.reqs[1].url =
               session.base_url \o
                   <<"session", "data",
                     IF last.datasource = None THEN session.primary_datasource
                     ELSE last.datasource,
                     last.mgr>>
        /\ Query(last.reqs[1]) = <<<<"token", session.token>>>>
        /\ Len(last.log) = 1
        /\ (last.log[1].resp = [transport |-> "ok", status |-> 200, body |-> "json"]) =>
               last.out = Return("json")

C22_Witness ==
    /\ last.op = "list" /\ last.mgr = "connections"
    /\ last.datasource = "postgresql"
    /\ session.primary_datasource = "mysql"
    /\ session.token = Token(1)
    /\ last.out = Return("json")

\* C23: a dispatcher call with json_response=False that gets a 2xx answer
\* returns the response object, whatever the body is; it never ends with a
\* decode error.
C23_RawResponse ==
    \A e \in Range(last.log) :
        ~e.json_response =>
            /\ e.out.exc # "JSONDecodeError"
            /\ (e.resp.transport = "ok" /\ e.resp.status \in 200..299) =>
                   e.out = Return("response")

C23_Witness ==
    /\ last.op = "delete" /\ last.mgr = "users"
    /\ Len(last.log) = 1
    /\ ~last.log[1].json_response
    /\ last.log[1].resp = [transport |-> "ok", status |-> 204, body |-> "text"]
    /\ last.out = Return("response")

\* C25: for a 20-byte digest the offset o is the low four bits of the last
\* byte, so 0 <= o <= 15 and the bytes o..o+3 lie inside the digest; the code
\* is the big-endian value of those four bytes without its top bit, reduced
\* modulo 1,000,000, and lies in 0..999999.
C25_Truncation ==
    (last.op = "truncate") =>
        LET h == last.digest
            o == last.offset
            code == last.out.val.n
            top == IF h[o + 1] >= 128 THEN h[o + 1] - 128 ELSE h[o + 1]
            masked == ((top * 256 + h[o + 2]) * 256 + h[o + 3]) * 256 + h[o + 4]
        IN /\ Len(h) = 20
           /\ o \in 0..15
           /\ \E hi \in 0..15 : h[20] = 16 * hi + o
           /\ o + 4 <= Len(h)
           /\ code \in 0..999999
           /\ \E q \in 0..2147 : masked = q * 1000000 + code

\* offset 15, the top bit set, a value above 1,000,000
C25_Witness ==
    /\ last.op = "truncate"
    /\ last.digest = Digest(255, <<255, 255, 255, 255>>, 0)
    /\ last.offset = 15
    /\ last.out = Return(IntVal(483647))

\* the groups of the tree
Groups == {g \in 1..Len(tree) : tree[g].kind = "group"}

\* the direct children of g under key that match the search
DirectMatches(g, key) ==
    SelectSeq(Children(tree, g, key),
              LAMBDA x : Matches(tree, x, found.name, found.regex))

\* the search order at group g: r is what the search started at g returned,
\* rec[i] what the search started at g's i-th child group returned
SearchOrder(g, key, r, rec) ==
    LET direct == DirectMatches(g, key)
        hits == {i \in DOMAIN rec : rec[i] # Absent}
    IN /\ direct # <<>> => r = direct[1]
       /\ (direct = <<>> /\ hits # {}) =>
              r = rec[CHOOSE i \in hits : \A j \in hits : i <= j]

\* C26: at every group node, a search returns the first matching direct child
\* of the searched type if there is one, whatever lies deeper; when no direct
\* child matches, it returns the first non-absent result of the searches of
\* the child groups, taken in sequence order.
C26_SearchOrder ==
    found.searched =>
        \A g \in Groups :
            LET sub == Children(tree, g, "childConnectionGroups")
            IN /\ SearchOrder(g, "childConnections",
                      FindConnectionByName(tree, g, found.name, found.regex),
                      [i \in DOMAIN sub |->
                          FindConnectionByName(tree, sub[i], found.name, found.regex)])
               /\ SearchOrder(g, "childConnectionGroups",
                      FindConnectionGroupByName(tree, g, found.name, found.regex),
                      [i \in DOMAIN sub |->
                          FindConnectionGroupByName(tree, sub[i], found.name, found.regex)])
               /\ SearchOrder(g, "childConnections",
                      get_connection_by_name(tree, g, found.name, found.regex),
                      [i \in DOMAIN sub |->
                          get_connection_by_name(tree, sub[i], found.name, found.regex)])

\* a matching connection inside a child group comes earlier in the tree than
\* the matching direct child that is returned
C26_Witness ==
    /\ found.searched /\ ~found.regex /\ found.name = <<"b", "a">>
    /\ Len(tree) = 4
    /\ tree[2] = Node(<<"a">>, "group", 1, tree[1].emptyKeys)
    /\ tree[3] = Node(<<"b", "a">>, "connection", 2, tree[1].emptyKeys)
    /\ tree[4] = Node(<<"b", "a">>, "connection", 1, tree[1].emptyKeys)
    /\ found.connection = 4
    /\ found.client_connection = 4

\* secrets base64.b32decode rejects: a length that is no multiple of eight,
\* a character outside the alphabet
InvalidSecrets == {SecretUnpadded, SecretBadDigit}

\* C27: constructing Guacamole with a TOTP secret that does not decode as
\* base32 ends with the decode error; no request is sent, the session and the
\* server's tokens are as before.
C27_InvalidSecret ==
    [][(/\ last'.op = "login"
        /\ last'.secret.given
        /\ last'.secret.chars \in InvalidSecrets) =>
            /\ last'.out = Raise("binascii.Error", 0)
            /\ last'.reqs = <<>>
            /\ session' = session
            /\ nextTok' = nextTok]_vars

C27_Witness ==
    /\ last.op = "login"
    /\ last.secret = Secret(SecretBadDigit)
    /\ last.out = Raise("binascii.Error", 0)
    /\ last.reqs = <<>>
    /\ ~session.exists

\* C29: on every tree, for every target name and match mode, the group search
\* of client.py and the group search of utilities.py return the same node, or
\* both return None.
C29_GroupSearchesAgree ==
    found.searched => found.group = found.client_group

\* where they part: a pattern that matches the root and a group below it
GroupSearchesDisagree ==
    /\ found.searched /\ found.regex /\ found.name = <<"a">>
    /\ tree[1].name = <<"b", "a">>
    /\ found.client_group = 1
    /\ found.group = 2
    /\ tree[2].name = <<"a">>

\* away from the root's own name the two searches agree
AgreeUnlessRootMatches ==
    (found.searched /\ ~Matches(tree, 1, found.name, found.regex)) =>
        found.group = found.client_group

\* C30: the primary datasource of a constructed session is one of its
\* available datasources; construction fails when the selected datasource
\* (default_datasource, or else the login answer's dataSource) is not among
\* availableDataSources.
C30_PrimaryAvailable ==
    /\ session.exists => session.primary_datasource \in session.datasources
    /\ (/\ last.op = "login" /\ Len(last.reqs) = 1
        /\ last.resp.transport = "ok" /\ ~RaisesForStatus(last.resp)
        /\ last.resp.body = "json" /\ LoginKeys \subseteq last.doc.keys
        /\ (IF Truthy(last.default_datasource) THEN last.default_datasource
            ELSE last.doc.dataSource) \notin last.doc.availableDataSources) =>
            last.out.kind = "raise"

\* what __init__ does instead: without default_datasource the answer's
\* dataSource is taken unchecked
PrimaryNotAvailable ==
    /\ last.op = "login" /\ last.out = Return("Guacamole")
    /\ last.default_datasource = None
    /\ last.doc.dataSource = "mysql"
    /\ last.doc.availableDataSources = {"postgresql"}
    /\ session.primary_datasource = "mysql"
    /\ session.datasources = {"postgresql"}

\* the assertion __init__ does make: a default_datasource outside the available
\* datasources fails the construction
DefaultDatasourceChecked ==
    (/\ last.op = "login" /\ Truthy(last.default_datasource)
     /\ last.out = Return("Guacamole")) =>
        last.default_datasource \in last.doc.availableDataSources

\* C28: requester leaves the query-parameter dict the caller passed as it
\* was: the same keys and values after the call as before it.
C28_ParamsUntouched ==
    last.op = "requester" => mapping = last.params

\* what requester does instead: the token is written into the caller's dict
TokenLeftInMapping ==
    /\ last.op = "requester"
    /\ last.params = <<<<"permission", "READ">>>>
    /\ mapping = <<<<"permission", "READ">>, <<"token", Token(1)>>>>

\* the request itself carries the token of the call, also when the dict
\* still holds the token of an earlier call
RequestCarriesOwnToken ==
    last.op = "requester" =>
        \A kv \in Range(Query(last.reqs[1])) :
            kv[1] = "token" =>
                kv[2] = IF Truthy(last.token) THEN last.token ELSE session.token

\* C24: while threads run manager operations on one client and nobody logs
\* in or out, every request a thread built carries the session token, the
\* client object stays as it was, and a thread that returned got the answer
\* to its own request and the result the manager method makes of it.
C24_ConcurrentReads ==
    /\ session = LoggedIn
    /\ \A t \in Threads :
        /\ threads[t].pc # "idle" =>
               Query(threads[t].req) = <<<<"token", session.token>>>>
        /\ threads[t].pc = "done" =>
               /\ threads[t].got.for = threads[t].req
               /\ threads[t].out = ThreadOutcome(threads[t], threads[t].got.resp)

\* thread 1 returned while the request of thread 2, sent before thread 1's,
\* is still unanswered
C24_Witness ==
    /\ threads[1].pc = "done" /\ threads[1].mgr = "users"
    /\ threads[1].out = Return("json")
    /\ threads[2].pc = "sent" /\ threads[2].mgr = "connections"
    /\ wire[2].req = threads[2].req /\ wire[2].resp = NoAnswer

====
